---- MODULE Spec2Model ----
(***************************************************************************)
(* A model of the polymorphic normalisation core of compose_yml:           *)
(*   - v2/aliased_name.in.rs  : the `name[:alias]` parser and formatter    *)
(*   - v2/env_file.rs         : the KEY=value environment-file reader      *)
(*   - v2/string_or_struct.rs : the string-or-struct (de)serialisers       *)
(* Text is modelled as sequences of one-character strings.                 *)
(***************************************************************************)
EXTENDS Integers, Sequences, FiniteSets

VARIABLES
    an,          \* the AliasedName value under manipulation (an Option)
    anMutated,   \* TRUE once a public field was assigned after construction
    anOut,       \* the outcome of the last AliasedName operation
    path,        \* the path handed to EnvFile::load
    envPc,       \* where EnvFile::load is: start, reading, read_done, open_failed
    consumed,    \* the lines the reader has pulled from the stream so far
    trace,       \* what the loop body did with each consumed line
    vars,        \* the BTreeMap being filled by EnvFile::read
    readResult,  \* what EnvFile::read returned
    loadResult,  \* what EnvFile::load returned
    tFromStr,    \* the target type T's FromStr::from_str rule
    tFromMap,    \* T's Deserialize rule applied to a mapping
    tEmit,       \* T's SerializeStringOrStruct rule: the node T chooses to emit
    sosOp,       \* the last string-or-struct operation and its input
    sosOut       \* what that operation returned

aliasVars == <<an, anMutated, anOut>>
envVars == <<path, envPc, consumed, trace, vars, readResult, loadResult>>
sosVars == <<tFromStr, tFromMap, tEmit, sosOp, sosOut>>
allVars == <<aliasVars, envVars, sosVars>>

----------------------------------------------------------------------------
(* Shared vocabulary: Result and Option values, bounded text.              *)

Ok(v) == [ok |-> TRUE, val |-> v]
Err(e) == [ok |-> FALSE, err |-> e]

None == [some |-> FALSE]
Some(x) == [some |-> TRUE, v |-> x]

BoundedSeq(S, n) == UNION {[1..k -> S] : k \in 0..n}

----------------------------------------------------------------------------
(* v2/aliased_name.in.rs                                                   *)

MaxTokenLen == 5
MaxFieldLen == 2

AliasChars == {"a", "b", ":"}
Tokens == BoundedSeq(AliasChars, MaxTokenLen)
Fields == BoundedSeq(AliasChars, MaxFieldLen)
OptFields == {None} \cup {Some(f) : f \in Fields}

AliasedName(name, alias) == [name |-> name, alias |-> alias]

\* str::contains(":")
ContainsColon(s) == \E i \in 1..Len(s) : s[i] = ":"

\* InvalidValueError::new(wanted, input)
InvalidValueError(wanted, input) == [wanted |-> wanted, input |-> input]

\* format!("{:?}", &self) of the derived Debug implementation
DebugFmt(self) == [debug |-> "AliasedName", name |-> self.name, alias |-> self.alias]

validate(self) ==
    LET bad_name == ContainsColon(self.name)
        bad_alias == IF self.alias.some THEN ContainsColon(self.alias.v) ELSE FALSE
    IN  IF bad_name \/ bad_alias
        THEN Err(InvalidValueError("aliased name", DebugFmt(self)))
        ELSE Ok("unit")

new(name, alias) ==
    LET result == AliasedName(name, alias)
        checked == validate(result)
    IN  IF checked.ok THEN Ok(result) ELSE checked

\* [^:]+ matched against exactly s[lo..hi]
ColonFreeRun(s, lo, hi) == lo <= hi /\ \A i \in lo..hi : s[i] # ":"


\* a variant of the grammar whose alias group is [^:]* instead of [^:]+
AliasedNameCapturesEmptyAlias(s) ==
    {<<e1, has2>> \in (1..Len(s)) \X BOOLEAN :
        /\ ColonFreeRun(s, 1, e1)
        /\ IF has2
           THEN e1 + 1 <= Len(s) /\ s[e1 + 1] = ":"
                /\ \A i \in (e1 + 2)..Len(s) : s[i] # ":"
           ELSE e1 = Len(s)}

\* The capture positions of ^([^:]+)(?::([^:]+))?$ on s: the set of <<e1, has2>>
\* where group 1 is s[1..e1] and group 2, when it takes part, is s[e1+2..Len(s)].
AliasedNameCaptures(s) ==
    {<<e1, has2>> \in (1..Len(s)) \X BOOLEAN :
        /\ ColonFreeRun(s, 1, e1)
        /\ IF has2
           THEN e1 + 1 <= Len(s) /\ s[e1 + 1] = ":" /\ ColonFreeRun(s, e1 + 2, Len(s))
           ELSE e1 = Len(s)}

from_str(s) ==
    LET caps == AliasedNameCaptures(s)
    IN  IF caps = {}
        THEN Err(InvalidValueError("aliased name", s))
        ELSE LET c == CHOOSE c \in caps : TRUE
             IN  Ok(AliasedName(SubSeq(s, 1, c[1]),
                                IF c[2] THEN Some(SubSeq(s, c[1] + 2, Len(s))) ELSE None))


\* a variant of to_string that trusts construction and skips validate
to_string_unchecked(self) ==
    IF self.alias.some
    THEN Ok(self.name \o <<":">> \o self.alias.v)
    ELSE Ok(self.name)

to_string(self) ==
    LET checked == validate(self)
    IN  IF ~checked.ok THEN checked
        ELSE IF self.alias.some
             THEN Ok(self.name \o <<":">> \o self.alias.v)
             ELSE Ok(self.name)

AliasInit ==
    /\ an = None
    /\ anMutated = FALSE
    /\ anOut = [op |-> "none"]

\* no value has been built yet, or the last one went out of scope
NoAliasedName == an = None /\ anOut.op = "none"

\* AliasedName::new(name, alias)
NewOp ==
    /\ NoAliasedName
    /\ \E name \in Fields, alias \in OptFields :
        LET r == new(name, alias)
        IN  /\ an' = IF r.ok THEN Some(r.val) ELSE None
            /\ anMutated' = FALSE
            /\ anOut' = [op |-> "new", name |-> name, alias |-> alias, res |-> r]
            /\ UNCHANGED <<envVars, sosVars>>

\* AliasedName::from_str(s)
FromStrOp ==
    /\ NoAliasedName
    /\ \E s \in Tokens :
        LET r == from_str(s)
        IN  /\ an' = IF r.ok THEN Some(r.val) ELSE None
            /\ anMutated' = FALSE
            /\ anOut' = [op |-> "from_str", s |-> s, res |-> r]
            /\ UNCHANGED <<envVars, sosVars>>

\* Assignment to the public field `name` of an existing value.
SetName ==
    /\ an.some
    /\ \E name \in Fields :
        /\ an' = Some(AliasedName(name, an.v.alias))
        /\ anMutated' = TRUE
        /\ anOut' = [op |-> "set"]
        /\ UNCHANGED <<envVars, sosVars>>

\* Assignment to the public field `alias` of an existing value.
SetAlias ==
    /\ an.some
    /\ \E alias \in OptFields :
        /\ an' = Some(AliasedName(an.v.name, alias))
        /\ anMutated' = TRUE
        /\ anOut' = [op |-> "set"]
        /\ UNCHANGED <<envVars, sosVars>>

\* self.to_string()
ToStringOp ==
    /\ an.some
    /\ anOut' = [op |-> "to_string", res |-> to_string(an.v)]
    /\ UNCHANGED <<an, anMutated, envVars, sosVars>>

\* the value and the last outcome go out of scope
Drop ==
    /\ anOut.op # "none"
    /\ an' = None
    /\ anMutated' = FALSE
    /\ anOut' = [op |-> "none"]
    /\ UNCHANGED <<envVars, sosVars>>

AliasNext == NewOp \/ FromStrOp \/ SetName \/ SetAlias \/ ToStringOp \/ Drop

----------------------------------------------------------------------------
(* v2/env_file.rs                                                          *)

MaxInputLen == 7

EnvChars == {"A", "1", "=", "#", " ", ":"}
Paths == {"a.env", "b.env"}

Letters ==
    {"A", "B", "C", "D", "E", "F", "G", "H", "I", "J", "K", "L", "M",
     "N", "O", "P", "Q", "R", "S", "T", "U", "V", "W", "X", "Y", "Z",
     "a", "b", "c", "d", "e", "f", "g", "h", "i", "j", "k", "l", "m",
     "n", "o", "p", "q", "r", "s", "t", "u", "v", "w", "x", "y", "z"}
Digits == {"0", "1", "2", "3", "4", "5", "6", "7", "8", "9"}

\* the regex class \s
Whitespace == {" ", "\t", "\r", "\f"}
\* the regex class [_A-Za-z]
IdentStart == {"_"} \cup Letters
\* the regex class [_A-Za-z0-9]
IdentCont == {"_"} \cup Letters \cup Digits

\* (:?#.*) matched against exactly line[lo..Len(line)]
BlankGroup(line, lo) ==
    \/ lo <= Len(line) /\ line[lo] = "#"
    \/ lo + 1 <= Len(line) /\ line[lo] = ":" /\ line[lo + 1] = "#"

\* BLANK.is_match(&line) for ^\s*(:?#.*)?$
BLANK(line) ==
    \E k \in 0..Len(line) :
        /\ \A i \in 1..k : line[i] \in Whitespace
        /\ (k = Len(line) \/ BlankGroup(line, k + 1))

\* VAR.captures(&line) for ^([_A-Za-z][_A-Za-z0-9]*)=(.*) : the ends of group 1
VAR(line) ==
    {e \in 1..Len(line) :
        /\ line[1] \in IdentStart
        /\ \A i \in 2..e : line[i] \in IdentCont
        /\ e + 1 <= Len(line)
        /\ line[e + 1] = "="}


\* a variant of insert under which the first assignment of a key wins
MapInsertKeepFirst(m, k, v) ==
    [x \in DOMAIN m \cup {k} |-> IF x \in DOMAIN m THEN m[x] ELSE v]

\* BTreeMap::insert
MapInsert(m, k, v) == [x \in DOMAIN m \cup {k} |-> IF x = k THEN v ELSE m[x]]
EmptyMap == [x \in {} |-> <<>>]

\* error_chain: an error is its chain of kinds, outermost first
IoError == <<[kind |-> "Io"]>>
ParseEnv(line) == [kind |-> "ParseEnv", line |-> line]
ReadFile(p) == [kind |-> "ReadFile", path |-> p]
Msg(m) == [kind |-> "Msg", msg |-> m]

\* ResultExt::chain_err
chain_err(r, kind) == IF r.ok THEN r ELSE Err(<<kind>> \o r.err)


\* a variant of load that replaces the error of read by the path error
load_result_replacing(p, r) == IF r.ok THEN r ELSE Err(<<ReadFile(p)>>)

\* EnvFile::load's treatment of what EnvFile::read returned
load_result(p, r) == chain_err(r, ReadFile(p))

Pending == [pending |-> TRUE]

\* bytes of the stream used by the consumed lines, one terminator per line
RECURSIVE Used(_)
Used(ls) == IF ls = <<>> THEN 0 ELSE Len(Head(ls)) + 1 + Used(Tail(ls))

EnvInit ==
    /\ path \in Paths
    /\ envPc = "start"
    /\ consumed = <<>>
    /\ trace = <<>>
    /\ vars = EmptyMap
    /\ readResult = Pending
    /\ loadResult = Pending

\* fs::File::open(path) fails
OpenFail ==
    /\ envPc = "start"
    /\ envPc' = "open_failed"
    /\ loadResult' = chain_err(Err(IoError), ReadFile(path))
    /\ UNCHANGED <<path, consumed, trace, vars, readResult, aliasVars, sosVars>>

\* fs::File::open(path) succeeds and EnvFile::read is entered
OpenOk ==
    /\ envPc = "start"
    /\ envPc' = "reading"
    /\ UNCHANGED <<path, consumed, trace, vars, readResult, loadResult, aliasVars, sosVars>>

\* one iteration of `for line_result in reader.lines()` with line_result = Ok(line)
ReadLine ==
    /\ envPc = "reading"
    /\ Used(consumed) < MaxInputLen
    /\ \E line \in BoundedSeq(EnvChars, MaxInputLen - Used(consumed) - 1) :
        /\ consumed' = Append(consumed, line)
        /\ IF BLANK(line)
           THEN /\ trace' = Append(trace, "skipped")
                /\ UNCHANGED <<envPc, vars, readResult, loadResult>>
           ELSE LET caps == VAR(line)
                IN  IF caps = {}
                    THEN /\ trace' = Append(trace, "rejected")
                         /\ envPc' = "read_done"
                         /\ readResult' = Err(<<ParseEnv(line)>>)
                         /\ loadResult' = load_result(path, readResult')
                         /\ UNCHANGED vars
                    ELSE LET e == CHOOSE e \in caps : TRUE
                         IN  /\ trace' = Append(trace, "assigned")
                             /\ vars' = MapInsert(vars, SubSeq(line, 1, e),
                                                  SubSeq(line, e + 2, Len(line)))
                             /\ UNCHANGED <<envPc, readResult, loadResult>>
    /\ UNCHANGED <<path, aliasVars, sosVars>>

\* one iteration with line_result = Err(io error)
ReadIoError ==
    /\ envPc = "reading"
    /\ envPc' = "read_done"
    /\ readResult' = chain_err(Err(IoError), Msg("I/O error"))
    /\ loadResult' = load_result(path, readResult')
    /\ UNCHANGED <<path, consumed, trace, vars, aliasVars, sosVars>>

\* reader.lines() is exhausted
ReadEof ==
    /\ envPc = "reading"
    /\ envPc' = "read_done"
    /\ readResult' = Ok([vars |-> vars])
    /\ loadResult' = load_result(path, readResult')
    /\ UNCHANGED <<path, consumed, trace, vars, aliasVars, sosVars>>

EnvNext == OpenFail \/ OpenOk \/ ReadLine \/ ReadIoError \/ ReadEof

----------------------------------------------------------------------------
(* v2/string_or_struct.rs                                                  *)

NumTVals == 2

\* the values of the target type T
TVals == 1..NumTVals
\* contents of string scalars and of mappings in the structured-data tree
StrVals == {"", "./app2"}
MapVals == {EmptyMap, [context |-> "./app2"]}

StrNode(x) == [shape |-> "str", s |-> x]
MapNode(y) == [shape |-> "map", m |-> y]
OtherNodes == {[shape |-> "seq"], [shape |-> "null"], [shape |-> "num"], [shape |-> "bool"]}
EmitNodes == {StrNode(x) : x \in StrVals} \cup {MapNode(y) : y \in MapVals}
Nodes == EmitNodes \cup OtherNodes

\* what T's two rules may answer; a from_str error is a value with a Display form
FromStrResults == {Ok(v) : v \in TVals} \cup {Err([display |-> "invalid value"])}
FromMapResults == {Ok(v) : v \in TVals} \cup {Err([kind |-> "custom", msg |-> "missing field"])}

\* serde's provided Visitor methods: Err(Error::invalid_type(unexpected, &self))
invalid_type(shape, expecting) ==
    Err([kind |-> "invalid_type", unexpected |-> shape, expected |-> expecting])

\* de::Error::custom(format!("{}", err))
custom(err) == [kind |-> "custom", msg |-> err.display]

\* the Visitor method a self-describing Deserializer calls from deserialize_any
VisitMethod(node) ==
    CASE node.shape = "str" -> "visit_str"
      [] node.shape = "map" -> "visit_map"
      [] node.shape = "seq" -> "visit_seq"
      [] node.shape = "null" -> "visit_unit"
      [] node.shape = "num" -> "visit_i64"
      [] node.shape = "bool" -> "visit_bool"


\* a variant of the visitor that falls back to the mapping rule when from_str fails
StringOrStructCoercing(method, node) ==
    CASE method = "visit_str" ->
            LET r == tFromStr[node.s]
            IN  IF r.ok THEN r ELSE tFromMap[EmptyMap]
      [] method = "visit_map" -> tFromMap[node.m]
      [] OTHER -> invalid_type(node.shape, "a string or a map")

\* impl Visitor for StringOrStruct<T>
StringOrStruct(method, node) ==
    CASE method = "visit_str" ->
            LET r == tFromStr[node.s]
            IN  IF r.ok THEN r ELSE Err(custom(r.err))
      [] method = "visit_map" -> tFromMap[node.m]
      [] OTHER -> invalid_type(node.shape, "a string or a map")

\* d.deserialize_any(StringOrStruct(PhantomData))
deserialize_string_or_struct(node) == StringOrStruct(VisitMethod(node), node)


\* a variant of the visitor that turns a failing present value into None
OptStringOrStructLenient(method, node) ==
    CASE method = "visit_none" -> Ok(None)
      [] method = "visit_some" ->
            LET r == deserialize_string_or_struct(node)
            IN  IF r.ok THEN Ok(Some(r.val)) ELSE Ok(None)
      [] OTHER -> invalid_type(node.shape, "a null, a string or a map")

\* impl Visitor for OptStringOrStruct<T>
OptStringOrStruct(method, node) ==
    CASE method = "visit_none" -> Ok(None)
      [] method = "visit_some" ->
            LET r == deserialize_string_or_struct(node)
            IN  IF r.ok THEN Ok(Some(r.val)) ELSE r
      [] OTHER -> invalid_type(node.shape, "a null, a string or a map")

\* the Visitor method a Deserializer calls from deserialize_option
OptionMethod(node) == IF node.shape = "null" THEN "visit_none" ELSE "visit_some"

\* d.deserialize_option(OptStringOrStruct(PhantomData))
deserialize_opt_string_or_struct(node) == OptStringOrStruct(OptionMethod(node), node)

\* value.serialize_string_or_struct(serializer)
serialize_string_or_struct(value) == Ok(tEmit[value])


\* a variant of the serializer that writes None as an empty string
serialize_opt_string_or_struct_blank(value) ==
    IF ~value.some
    THEN Ok(StrNode(""))
    ELSE serialize_string_or_struct(value.v)

\* serializer.serialize_none() / serializer.serialize_some(&Wrap(v))
serialize_opt_string_or_struct(value) ==
    IF ~value.some
    THEN Ok([shape |-> "null"])
    ELSE serialize_string_or_struct(value.v)

SosInit ==
    /\ tFromStr \in [StrVals -> FromStrResults]
    /\ tFromMap \in [MapVals -> FromMapResults]
    /\ tEmit \in [TVals -> EmitNodes]
    /\ sosOp = [op |-> "none"]
    /\ sosOut = Pending

\* the single target type used while the other components run
SosIdleInit ==
    /\ SosInit
    /\ tFromStr = [x \in StrVals |-> Ok(1)]
    /\ tFromMap = [y \in MapVals |-> Ok(1)]
    /\ tEmit = [v \in TVals |-> StrNode("")]

\* deserialize_string_or_struct(d) on a node of the tree
Deserialize ==
    /\ \E n \in Nodes :
        /\ sosOp' = [op |-> "de", node |-> n]
        /\ sosOut' = deserialize_string_or_struct(n)
    /\ UNCHANGED <<tFromStr, tFromMap, tEmit, aliasVars, envVars>>

\* deserialize_opt_string_or_struct(d) on a node of the tree
DeserializeOpt ==
    /\ \E n \in Nodes :
        /\ sosOp' = [op |-> "de_opt", node |-> n]
        /\ sosOut' = deserialize_opt_string_or_struct(n)
    /\ UNCHANGED <<tFromStr, tFromMap, tEmit, aliasVars, envVars>>

\* serialize_string_or_struct(&v, serializer)
Serialize ==
    /\ \E v \in TVals :
        /\ sosOp' = [op |-> "ser", v |-> v]
        /\ sosOut' = serialize_string_or_struct(v)
    /\ UNCHANGED <<tFromStr, tFromMap, tEmit, aliasVars, envVars>>

\* serialize_opt_string_or_struct(&x, serializer)
SerializeOpt ==
    /\ \E x \in {None} \cup {Some(v) : v \in TVals} :
        /\ sosOp' = [op |-> "ser_opt", x |-> x]
        /\ sosOut' = serialize_opt_string_or_struct(x)
    /\ UNCHANGED <<tFromStr, tFromMap, tEmit, aliasVars, envVars>>

\* the emitted node is read back with deserialize_string_or_struct
ReadBack ==
    /\ sosOp.op = "ser"
    /\ sosOut.ok
    /\ sosOp' = [op |-> "ser_de", v |-> sosOp.v, node |-> sosOut.val]
    /\ sosOut' = deserialize_string_or_struct(sosOut.val)
    /\ UNCHANGED <<tFromStr, tFromMap, tEmit, aliasVars, envVars>>

\* the emitted node is read back with deserialize_opt_string_or_struct
ReadBackOpt ==
    /\ sosOp.op = "ser_opt"
    /\ sosOut.ok
    /\ sosOp' = [op |-> "ser_opt_de", x |-> sosOp.x, node |-> sosOut.val]
    /\ sosOut' = deserialize_opt_string_or_struct(sosOut.val)
    /\ UNCHANGED <<tFromStr, tFromMap, tEmit, aliasVars, envVars>>

SosNext ==
    Deserialize \/ DeserializeOpt \/ Serialize \/ SerializeOpt \/ ReadBack \/ ReadBackOpt

----------------------------------------------------------------------------
(* Properties of the aliased-name parser, checked under SpecAlias.         *)

RECURSIVE ColonCount(_)
ColonCount(s) ==
    IF s = <<>> THEN 0 ELSE (IF Head(s) = ":" THEN 1 ELSE 0) + ColonCount(Tail(s))

FirstColon(s) == CHOOSE p \in 1..Len(s) : s[p] = ":" /\ \A i \in 1..(p - 1) : s[i] # ":"

\* C4: from_str(s) succeeds exactly when s is a non-empty colon-free name,
\* optionally followed by one ':' and a non-empty colon-free alias; the result
\* holds the text before the ':' as name and the text after it as alias (None
\* without a ':'); every other s is rejected with an InvalidValueError of
\* category "aliased name" carrying s.
C4_FromStrGrammar ==
    anOut.op = "from_str" =>
        LET s == anOut.s
            n == ColonCount(s)
        IN  IF n = 0 /\ Len(s) > 0
            THEN anOut.res = Ok(AliasedName(s, None))
            ELSE IF n = 1 /\ FirstColon(s) > 1 /\ FirstColon(s) < Len(s)
                 THEN anOut.res = Ok(AliasedName(SubSeq(s, 1, FirstColon(s) - 1),
                                                 Some(SubSeq(s, FirstColon(s) + 1, Len(s)))))
                 ELSE /\ ~anOut.res.ok
                      /\ anOut.res.err.wanted = "aliased name"
                      /\ anOut.res.err.input = s

C4_Witness ==
    /\ anOut.op = "from_str"
    /\ anOut.s = <<"a", ":", "b">>
    /\ anOut.res.ok
    /\ an = Some(AliasedName(<<"a">>, Some(<<"b">>)))

\* C5: to_string validates on every call: when name or alias contains ':' it
\* returns an InvalidValueError of category "aliased name" and no string, also
\* for a value whose fields were assigned after construction; otherwise it
\* returns name, or name ":" alias; a formatted string never has two ':'.
C5_ToStringRevalidates ==
    anOut.op = "to_string" =>
        LET a == an.v
            bad == \/ ColonCount(a.name) > 0
                   \/ (a.alias.some /\ ColonCount(a.alias.v) > 0)
        IN  /\ bad => (~anOut.res.ok /\ anOut.res.err.wanted = "aliased name")
            /\ ~bad => anOut.res = Ok(IF a.alias.some
                                      THEN a.name \o <<":">> \o a.alias.v
                                      ELSE a.name)
            /\ anOut.res.ok => ColonCount(anOut.res.val) <= 1

C5_Witness ==
    /\ anOut.op = "to_string"
    /\ anMutated
    /\ an.v.name = <<":">>
    /\ ~anOut.res.ok

\* C10: every (name, alias) that new accepts formats with to_string to a token
\* that from_str parses back to the same name and alias.
C10_NewRoundTrips ==
    (anOut.op = "new" /\ anOut.res.ok) =>
        LET t == to_string(anOut.res.val)
        IN  t.ok /\ from_str(t.val) = Ok(anOut.res.val)

----------------------------------------------------------------------------
(* Properties of the environment-file reader, checked under SpecEnv.       *)

\* optional whitespace, optionally followed by '#' and any text
BlankOrComment(line) ==
    \/ \A i \in 1..Len(line) : line[i] \in Whitespace
    \/ \E k \in 1..Len(line) :
        line[k] = "#" /\ \A i \in 1..(k - 1) : line[i] \in Whitespace

HasEq(line) == \E p \in 1..Len(line) : line[p] = "="
FirstEq(line) == CHOOSE p \in 1..Len(line) : line[p] = "=" /\ \A i \in 1..(p - 1) : line[i] # "="
KeyOf(line) == SubSeq(line, 1, FirstEq(line) - 1)
ValueOf(line) == SubSeq(line, FirstEq(line) + 1, Len(line))

\* [A-Za-z_][A-Za-z0-9_]*
Identifier(k) ==
    /\ Len(k) >= 1
    /\ k[1] \in Letters \cup {"_"}
    /\ \A i \in 2..Len(k) : k[i] \in Letters \cup Digits \cup {"_"}

\* IDENT=VALUE
Assignment(line) == HasEq(line) /\ Identifier(KeyOf(line))

ReadIoFailed == envPc = "read_done" /\ ~readResult.ok /\ readResult.err[1].kind = "Msg"
ReadFinished == envPc = "read_done" /\ ~ReadIoFailed

AssignmentLines == {i \in 1..Len(consumed) : Assignment(consumed[i])}
OffendingLines ==
    {i \in 1..Len(consumed) : ~BlankOrComment(consumed[i]) /\ ~Assignment(consumed[i])}
LastAssigning(k) ==
    CHOOSE i \in AssignmentLines :
        /\ KeyOf(consumed[i]) = k
        /\ \A j \in AssignmentLines : KeyOf(consumed[j]) = k => j <= i

\* C6: on an input of only blank/comment and IDENT=VALUE lines, read succeeds
\* and the map holds exactly the assigned identifiers, each with the verbatim
\* remainder after the first '=' of the last line assigning it.
C6_LastAssignmentWins ==
    (ReadFinished /\ OffendingLines = {}) =>
        /\ readResult.ok
        /\ LET m == readResult.val.vars
           IN  /\ DOMAIN m = {KeyOf(consumed[i]) : i \in AssignmentLines}
               /\ \A k \in DOMAIN m :
                    Identifier(k) /\ m[k] = ValueOf(consumed[LastAssigning(k)])

C6_Witness ==
    /\ ReadFinished
    /\ readResult.ok
    /\ consumed = << <<"A", "=", "#">>, <<"A", "=">> >>
    /\ readResult.val.vars[<<"A">>] = <<>>

\* C7: a line is skipped with no effect exactly when it is optional whitespace
\* optionally followed by '#' and text; any other line must be IDENT=VALUE or
\* the read fails.
C7_SkipsOnlyBlankOrComment ==
    \A i \in 1..Len(trace) :
        /\ trace[i] = "skipped" <=> BlankOrComment(consumed[i])
        /\ trace[i] = "assigned" => Assignment(consumed[i])

\* C8: when some line is neither blank/comment nor IDENT=VALUE, read returns
\* ParseEnv with the text of the first such line, and no later line is read.
C8_FirstOffendingLineFails ==
    (ReadFinished /\ OffendingLines # {}) =>
        LET first == CHOOSE i \in OffendingLines : \A j \in OffendingLines : i <= j
        IN  /\ readResult = Err(<<ParseEnv(consumed[first])>>)
            /\ first = Len(consumed)

\* C9: load returns what read returned when read succeeds; a failure to open
\* gives an error whose outermost kind is ReadFile(path); a failure of read
\* gives ReadFile(path) layered over the unchanged error chain of read.
C9_LoadLayersPath ==
    /\ envPc = "open_failed" =>
        (~loadResult.ok /\ loadResult.err[1] = ReadFile(path))
    /\ envPc = "read_done" =>
        IF readResult.ok
        THEN loadResult = readResult
        ELSE /\ ~loadResult.ok
             /\ loadResult.err[1] = ReadFile(path)
             /\ Tail(loadResult.err) = readResult.err

C9_Witness ==
    /\ envPc = "read_done"
    /\ Len(consumed) = 2
    /\ readResult = Err(<<ParseEnv(<<"A">>)>>)
    /\ loadResult = Err(<<ReadFile(path), ParseEnv(<<"A">>)>>)

----------------------------------------------------------------------------
(* Properties of the string-or-struct engine, checked under SpecSos.       *)

\* C1: deserialize_string_or_struct dispatches on the node's shape alone: a
\* string gives T's from-string result (its failure is an error), a mapping
\* gives T's mapping result, any other shape gives the error "expected a string
\* or a map".
C1_DispatchOnShape ==
    sosOp.op = "de" =>
        LET n == sosOp.node
        IN  CASE n.shape = "str" ->
                    IF tFromStr[n.s].ok
                    THEN sosOut = tFromStr[n.s]
                    ELSE /\ ~sosOut.ok
                         /\ sosOut.err.kind = "custom"
                         /\ sosOut.err.msg = tFromStr[n.s].err.display
              [] n.shape = "map" -> sosOut = tFromMap[n.m]
              [] OTHER ->
                    /\ ~sosOut.ok
                    /\ sosOut.err.kind = "invalid_type"
                    /\ sosOut.err.expected = "a string or a map"

C1_Witness ==
    /\ sosOp.op = "de"
    /\ sosOp.node = StrNode("./app2")
    /\ ~tFromStr["./app2"].ok
    /\ \A y \in MapVals : tFromMap[y].ok
    /\ ~sosOut.ok

\* C2: deserialize_opt_string_or_struct gives Ok(None) on null; on any present
\* node it gives Ok(Some(r)) exactly when deserialize_string_or_struct gives
\* Ok(r) and an error exactly when that gives an error; an empty string or an
\* empty mapping is never None.
C2_OptFollowsPlain ==
    sosOp.op = "de_opt" =>
        LET n == sosOp.node
            r == deserialize_string_or_struct(n)
        IN  IF n.shape = "null"
            THEN sosOut = Ok(None)
            ELSE /\ sosOut.ok <=> r.ok
                 /\ r.ok => sosOut = Ok(Some(r.val))
                 /\ sosOut # Ok(None)

C2_Witness ==
    /\ sosOp.op = "de_opt"
    /\ sosOp.node = MapNode(EmptyMap)
    /\ ~tFromMap[EmptyMap].ok
    /\ ~sosOut.ok

\* T's own emitted string form parses back, and its own emitted mapping form
\* deserializes back
EmitsParseBack ==
    \A v \in TVals :
        IF tEmit[v].shape = "str"
        THEN tFromStr[tEmit[v].s] = Ok(v)
        ELSE tFromMap[tEmit[v].m] = Ok(v)

\* C3: for a T whose emitted forms parse back, reading back what
\* serialize_string_or_struct wrote gives the value, and reading back what
\* serialize_opt_string_or_struct wrote gives the option (None or Some).
C3_RoundTrip ==
    EmitsParseBack =>
        /\ sosOp.op = "ser_de" => sosOut = Ok(sosOp.v)
        /\ sosOp.op = "ser_opt_de" => sosOut = Ok(sosOp.x)

C3_Witness ==
    /\ EmitsParseBack
    /\ \E v, w \in TVals : tEmit[v].shape = "str" /\ tEmit[w].shape = "map"
    /\ sosOp.op = "ser_opt_de"
    /\ sosOp.x = None
    /\ sosOut = Ok(None)

----------------------------------------------------------------------------
(* Specifications                                                          *)

InitAlias ==
    /\ AliasInit
    /\ EnvInit /\ path = "a.env"
    /\ SosIdleInit

InitEnv ==
    /\ EnvInit
    /\ AliasInit
    /\ SosIdleInit

InitSos ==
    /\ SosInit
    /\ AliasInit
    /\ EnvInit /\ path = "a.env"

SpecAlias == InitAlias /\ [][AliasNext]_allVars

SpecEnv == InitEnv /\ [][EnvNext]_allVars

SpecSos == InitSos /\ [][SosNext]_allVars
====
